---------------------------- MODULE Spec2Model ----------------------------
(***************************************************************************)
(* Model of src/src/container-runner.ts: one invocation of                 *)
(* runContainerAgent (spawn, bounded capture of stdout/stderr, timeout,    *)
(* close/error handlers, sentinel parsing) and the snapshot writers        *)
(* writeTasksSnapshot / writeGroupsSnapshot.                                *)
(*                                                                         *)
(* A text is a sequence of units.  A unit is a whitespace character, a log *)
(* character, one of the two sentinel markers, or one complete JSON        *)
(* document; lengths are counted in units.                                 *)
(*                                                                         *)
(* Calls of the logger, the write of the input to the child's stdin and    *)
(* the clock readings change nothing the runner later reads and are left   *)
(* out.  The events of the child follow the runtime: 'data' events stop    *)
(* at 'close', 'close' follows the end of the process, and the 'error' of  *)
(* a failed spawn is emitted on the next tick, before any timer, and is    *)
(* followed by 'close'.                                                    *)
(***************************************************************************)
EXTENDS Integers, Sequences, FiniteSets, TLC

(***************************************************************************)
(* Program constants (scaled) and bounds of the model                      *)
(***************************************************************************)
\* config value imported at container-runner.ts:13, scaled to units
AGENT_MAX_OUTPUT_SIZE == 4
\* stderr.slice(-200) at container-runner.ts:213, scaled to units
STDERR_EXCERPT == 2
\* stderr.slice(-500) at container-runner.ts:192, scaled to units
STDERR_LOG_EXCERPT == 3
\* largest chunk one data event delivers
MaxChunk == 2
\* most units a worker writes to one stream
MaxTotal == 7
\* largest chunk one data event delivers in the parsing specification
ParseChunk == 1
\* longest task list handed to writeTasksSnapshot
MaxTasks == 2
\* longest group list handed to writeGroupsSnapshot
MaxGroups == 1
\* the last reading of the scheduler's clock
MaxNow == 4

OUTPUT_START_MARKER == <<"S">>
OUTPUT_END_MARKER == <<"E">>

\* process.env.LOG_LEVEL || 'info'
LOG_LEVEL == "info"

Null == "null"

(***************************************************************************)
(* Units of text                                                           *)
(***************************************************************************)
WhiteSpace == {" ", "\n"}
\* complete JSON documents: a success WorkerResult and an error WorkerResult
JsonDocs == {"J_OK", "J_ER"}
\* every unit a worker may write to stdout
OutUnits == {"S", "E", "J_OK", "J_ER", "x", "\n", " "}
\* the units drawn for stdout in the lifecycle specification
LifeOutUnits == {"J_OK", "x"}
\* the units a worker may write to stderr
ErrUnits == {"a", "b"}

RECURSIVE SeqsUpTo(_, _)
SeqsUpTo(U, n) ==
  IF n = 0 THEN {<<>>}
  ELSE LET shorter == SeqsUpTo(U, n - 1)
       IN shorter \cup {Append(s, u) : s \in {t \in shorter : Len(t) = n - 1}, u \in U}

Chunks(U, n) == SeqsUpTo(U, n) \ {<<>>}

Min(a, b) == IF a < b THEN a ELSE b
Max(a, b) == IF a > b THEN a ELSE b

\* the first n units of text s, or all of s when it is shorter
FirstUnits(s, n) == SubSeq(s, 1, Min(Len(s), n))

(***************************************************************************)
(* JavaScript string operations used by the runner                         *)
(***************************************************************************)
\* String.prototype.slice(start, end): 0-based, negative counts from the end
JsSlice(s, start, end) ==
  LET n == Len(s)
      from == IF start < 0 THEN Max(n + start, 0) ELSE Min(start, n)
      to == IF end < 0 THEN Max(n + end, 0) ELSE Min(end, n)
  IN IF from >= to THEN <<>> ELSE SubSeq(s, from + 1, to)

\* String.prototype.slice(start)
JsSliceFrom(s, start) == JsSlice(s, start, Len(s))

\* String.prototype.indexOf(pat): first 0-based position of pat, or -1
IndexOf(s, pat) ==
  LET hits == {i \in 0..(Len(s) - Len(pat)) : SubSeq(s, i + 1, i + Len(pat)) = pat}
  IN IF hits = {} THEN -1 ELSE CHOOSE i \in hits : \A j \in hits : i <= j

\* String.prototype.trim()
RECURSIVE TrimLeft(_)
TrimLeft(s) ==
  IF s # <<>> /\ Head(s) \in WhiteSpace THEN TrimLeft(Tail(s)) ELSE s

RECURSIVE TrimRight(_)
TrimRight(s) ==
  IF s # <<>> /\ s[Len(s)] \in WhiteSpace
  THEN TrimRight(SubSeq(s, 1, Len(s) - 1)) ELSE s

Trim(s) == TrimRight(TrimLeft(s))

\* String.prototype.split('\n'): the lines of s, at least one
RECURSIVE SplitLines(_)
SplitLines(s) ==
  LET nl == IndexOf(s, <<"\n">>)
  IN IF nl = -1 THEN <<s>>
     ELSE <<SubSeq(s, 1, nl)>> \o SplitLines(SubSeq(s, nl + 2, Len(s)))

(***************************************************************************)
(* Results                                                                 *)
(***************************************************************************)
NoResult == [status |-> "none", result |-> Null, error |-> <<>>]

ErrorResult(msg) == [status |-> "error", result |-> Null, error |-> msg]

\* the value of a JSON document
JsonValue(doc) ==
  IF doc = "J_OK"
  THEN [status |-> "success", result |-> "r", error |-> <<>>]
  ELSE [status |-> "error", result |-> Null, error |-> <<"e">>]

\* JSON.parse(text): one document, surrounded by optional whitespace;
\* anything else is a SyntaxError
JSONParse(text) ==
  LET t == Trim(text)
  IN IF Len(t) = 1 /\ t[1] \in JsonDocs
     THEN [ok |-> TRUE, value |-> JsonValue(t[1])]
     ELSE [ok |-> FALSE, value |-> NoResult]

TimeoutResult == ErrorResult(<<"Agent timed out after", "AGENT_TIMEOUT", "ms">>)

ExitErrorResult(code, err) ==
  ErrorResult(<<"Agent exited with code", code>> \o JsSliceFrom(err, -STDERR_EXCERPT))

ParseErrorResult == ErrorResult(<<"Failed to parse agent output">>)

SpawnErrorResult == ErrorResult(<<"Agent spawn error">>)


(***************************************************************************)
(* State                                                                   *)
(***************************************************************************)
VARIABLES
  pc,               \* position of runContainerAgent: Spawning, Running, Threw
  promise,          \* the returned promise: pending, resolved, rejected
  result,           \* the value the promise resolved with
  resolvedBy,       \* the callback whose resolve() settled the promise
  timer,            \* the setTimeout handle: unset, pending, fired, cleared
  child,            \* the child process: none, spawnfail, running, exited, failed, closed
  exitCode,         \* the code the close event carries
  sigkill,          \* SIGKILL was delivered to the live process
  killedBy,         \* the callbacks that called child.kill
  stdout,           \* let stdout
  stderr,           \* let stderr
  stdoutTruncated,  \* let stdoutTruncated
  stderrTruncated,  \* let stderrTruncated
  outTotal,         \* units the worker has written to stdout so far
  errTotal,         \* units the worker has written to stderr so far
  outFirst,         \* the first AGENT_MAX_OUTPUT_SIZE units written to stdout
  errFirst,         \* the first AGENT_MAX_OUTPUT_SIZE units written to stderr
  logFile,          \* the audit log the close handler writes
  uncaught,         \* an exception escaped a callback into the host
  snapPc,           \* position of the snapshot writer: idle, tasks, groups, threw
  snapArgs,         \* the arguments of the snapshot calls
  tasksFile,        \* ipc/<groupFolder>/current_tasks.json
  groupsFile,       \* ipc/<groupFolder>/available_groups.json
  snapRead,         \* what the worker last read from a snapshot file
  hostEnv,          \* process.env of the host
  registry,         \* the registered groups: folder and privilege of each tenant
  envPc,            \* position of buildAgentEnv per tenant: idle, built, threw
  agentEnv,         \* the environment buildAgentEnv returned per tenant
  dirs,             \* the directories mkdirSync has created
  files,            \* the files the workers have written, with their writer
  sourceGroup,      \* the tenant whose mailbox directory is consumed
  mailbox,          \* the files of ipc/<tenant>/messages and ipc/<tenant>/tasks
  consumerPc,       \* position of the mailbox consumer: idle, scan, delete
  listed,           \* the file names the consumer's directory listing returned
  current,          \* the file the consumer has processed and not yet deleted
  sent,             \* the messages handed to the chat network, in order
  taskTable,        \* the persisted task set
  refreshed,        \* a refresh of the group list was carried out
  applied,          \* how often the consumer has processed each file
  denied,           \* the files whose entry the authorization policy denied
  now,              \* the clock the scheduler reads
  schedule,         \* the scheduled tasks: kind, value, status, next_run
  schedPc,          \* position of the scheduler: idle, running
  running,          \* the task whose invocation is under way
  lastRun           \* the last completed run: task, time, outcome

promiseVars == <<promise, result, resolvedBy>>
killVars == <<killedBy, sigkill>>
outVars == <<stdout, stdoutTruncated, outTotal, outFirst>>
errVars == <<stderr, stderrTruncated, errTotal, errFirst>>
lifeVars == <<pc, promise, result, resolvedBy, timer, child, exitCode, sigkill,
              killedBy, stdout, stderr, stdoutTruncated, stderrTruncated,
              outTotal, errTotal, outFirst, errFirst, logFile, uncaught>>
snapVars == <<snapPc, snapArgs, tasksFile, groupsFile, snapRead>>
envVars == <<hostEnv, registry, envPc, agentEnv, dirs, files>>
mailVars == <<sourceGroup, mailbox, consumerPc, listed, current, sent, taskTable,
              refreshed, applied, denied>>
schedVars == <<now, schedule, schedPc, running, lastRun>>
vars == <<lifeVars, snapVars, envVars, mailVars, schedVars>>

\* the variables outside one invocation, outside the snapshot writers and
\* outside the environment builder
exceptLife == <<snapVars, envVars, mailVars, schedVars>>
exceptSnap == <<lifeVars, envVars, mailVars, schedVars>>
exceptEnv == <<lifeVars, snapVars, mailVars, schedVars>>
exceptMail == <<lifeVars, snapVars, envVars, schedVars>>
exceptSched == <<lifeVars, snapVars, envVars, mailVars>>

\* the code of a process that ends by itself; null when a signal ended it
ExitCodes == {"0", "1", Null}
\* the negative errno the close event carries after a failed spawn
SpawnFailCode == "-2"

NoLog == [code |-> "none", stdoutTruncated |-> FALSE, stderrTruncated |-> FALSE,
          body |-> <<>>]

(***************************************************************************)
(* runContainerAgent                                                       *)
(***************************************************************************)
\* variant of resolve: a later call replaces the value
ResolveLast(v, who) ==
  /\ promise # "rejected"
  /\ promise' = "resolved" /\ result' = v /\ resolvedBy' = who

\* the resolve function of new Promise((resolve) => ...): the first call
\* settles the promise, later calls are ignored
Resolve(v, who) ==
  IF promise = "pending"
  THEN promise' = "resolved" /\ result' = v /\ resolvedBy' = who
  ELSE UNCHANGED promiseVars

\* clearTimeout(timeout)
ClearTimeout(t) == IF t = "pending" THEN "cleared" ELSE t

\* lines 76-148: the synchronous part of the call.  A failing mkdirSync
\* throws inside the async function, which rejects the returned promise.
\* Otherwise the child is spawned, the handlers are registered and the
\* timer is started; a failed spawn is reported later by an 'error' event.
RunContainerAgent(fsOk, spawnOk) ==
  /\ pc = "Spawning"
  /\ IF ~fsOk
     THEN /\ pc' = "Threw"
          /\ promise' = "rejected"
          /\ UNCHANGED <<result, resolvedBy, timer, child>>
     ELSE /\ pc' = "Running"
          /\ child' = IF spawnOk THEN "running" ELSE "spawnfail"
          /\ timer' = "pending"
          /\ UNCHANGED promiseVars
  /\ stdout' = <<>>
  /\ stderr' = <<>>
  /\ stdoutTruncated' = FALSE
  /\ stderrTruncated' = FALSE
  /\ UNCHANGED <<exitCode, sigkill, killedBy, outTotal, errTotal, outFirst, errFirst,
                 logFile, uncaught>>

\* variant of the stdout handler: the chunk that does not fit is appended whole
OnStdoutDataNoSlice(chunk) ==
  /\ IF stdoutTruncated
     THEN UNCHANGED <<stdout, stdoutTruncated>>
     ELSE LET remaining == AGENT_MAX_OUTPUT_SIZE - Len(stdout)
          IN /\ stdout' = stdout \o chunk
             /\ stdoutTruncated' = (Len(chunk) > remaining)
  /\ UNCHANGED killVars

\* lines 110-121: child.stdout.on('data')
OnStdoutData(chunk) ==
  /\ IF stdoutTruncated
     THEN UNCHANGED <<stdout, stdoutTruncated>>
     ELSE LET remaining == AGENT_MAX_OUTPUT_SIZE - Len(stdout)
          IN IF Len(chunk) > remaining
             THEN /\ stdout' = stdout \o JsSlice(chunk, 0, remaining)
                  /\ stdoutTruncated' = TRUE
             ELSE /\ stdout' = stdout \o chunk
                  /\ UNCHANGED stdoutTruncated
  /\ UNCHANGED killVars

\* variant of the stderr handler: the worker is killed when the cap is hit
OnStderrDataKills(chunk) ==
  /\ IF stderrTruncated
     THEN UNCHANGED <<stderr, stderrTruncated, killVars>>
     ELSE LET remaining == AGENT_MAX_OUTPUT_SIZE - Len(stderr)
          IN IF Len(chunk) > remaining
             THEN /\ stderr' = stderr \o JsSlice(chunk, 0, remaining)
                  /\ stderrTruncated' = TRUE
                  /\ killedBy' = killedBy \cup {"stderr"}
                  /\ sigkill' = (sigkill \/ child = "running")
             ELSE /\ stderr' = stderr \o chunk
                  /\ UNCHANGED <<stderrTruncated, killVars>>

\* variant of the stderr handler: the flag is set as soon as the buffer is full
OnStderrDataAtCap(chunk) ==
  /\ IF stderrTruncated
     THEN UNCHANGED <<stderr, stderrTruncated>>
     ELSE LET remaining == AGENT_MAX_OUTPUT_SIZE - Len(stderr)
          IN IF Len(chunk) >= remaining
             THEN /\ stderr' = stderr \o JsSlice(chunk, 0, remaining)
                  /\ stderrTruncated' = TRUE
             ELSE /\ stderr' = stderr \o chunk
                  /\ UNCHANGED stderrTruncated
  /\ UNCHANGED killVars

\* lines 123-138: child.stderr.on('data')
OnStderrData(chunk) ==
  /\ IF stderrTruncated
     THEN UNCHANGED <<stderr, stderrTruncated>>
     ELSE LET remaining == AGENT_MAX_OUTPUT_SIZE - Len(stderr)
          IN IF Len(chunk) > remaining
             THEN /\ stderr' = stderr \o JsSlice(chunk, 0, remaining)
                  /\ stderrTruncated' = TRUE
             ELSE /\ stderr' = stderr \o chunk
                  /\ UNCHANGED stderrTruncated
  /\ UNCHANGED killVars

\* variant of the timeout callback: resolves without killing the child
OnTimeoutNoKill ==
  /\ timer' = "fired"
  /\ UNCHANGED killVars
  /\ Resolve(TimeoutResult, "timeout")

\* lines 140-148: the timeout callback
OnTimeout ==
  /\ timer' = "fired"
  /\ killedBy' = killedBy \cup {"timeout"}
  /\ sigkill' = (sigkill \/ child = "running")
  /\ Resolve(TimeoutResult, "timeout")

\* lines 158-196: the audit log
LogLines(code) ==
  [code |-> code,
   stdoutTruncated |-> stdoutTruncated,
   stderrTruncated |-> stderrTruncated,
   body |-> IF LOG_LEVEL \in {"debug", "trace"}
            THEN stderr \o stdout
            ELSE IF code # "0" THEN JsSliceFrom(stderr, -STDERR_LOG_EXCERPT)
                 ELSE <<>>]

\* variant of the extraction: the slice starts at the start marker itself
ExtractJsonLineNoSkip(out) ==
  LET startIdx == IndexOf(out, OUTPUT_START_MARKER)
      endIdx == IndexOf(out, OUTPUT_END_MARKER)
  IN IF startIdx # -1 /\ endIdx # -1 /\ endIdx > startIdx
     THEN Trim(JsSlice(out, startIdx, endIdx))
     ELSE LET lines == SplitLines(Trim(out))
          IN lines[Len(lines)]

\* variant of the extraction: the fallback takes the first line
ExtractJsonLineFirst(out) ==
  LET startIdx == IndexOf(out, OUTPUT_START_MARKER)
      endIdx == IndexOf(out, OUTPUT_END_MARKER)
  IN IF startIdx # -1 /\ endIdx # -1 /\ endIdx > startIdx
     THEN Trim(JsSlice(out, startIdx + Len(OUTPUT_START_MARKER), endIdx))
     ELSE LET lines == SplitLines(Trim(out))
          IN lines[1]

\* lines 220-230: the text handed to JSON.parse
ExtractJsonLine(out) ==
  LET startIdx == IndexOf(out, OUTPUT_START_MARKER)
      endIdx == IndexOf(out, OUTPUT_END_MARKER)
  IN IF startIdx # -1 /\ endIdx # -1 /\ endIdx > startIdx
     THEN Trim(JsSlice(out, startIdx + Len(OUTPUT_START_MARKER), endIdx))
     ELSE LET lines == SplitLines(Trim(out))
          IN lines[Len(lines)]

\* lines 218-254: the try/catch around the parse
ParseOutput(out) ==
  LET parsed == JSONParse(ExtractJsonLine(out))
  IN IF parsed.ok THEN parsed.value ELSE ParseErrorResult

\* variant of the exit-code test: code > 0, which a null code does not satisfy
CloseResultPositive(code) ==
  IF code \notin {"0", Null} THEN ExitErrorResult(code, stderr) ELSE ParseOutput(stdout)

\* lines 201-254: the result the close handler resolves with
CloseResult(code) ==
  IF code # "0" THEN ExitErrorResult(code, stderr) ELSE ParseOutput(stdout)

\* variant of the close handler: the timer is left running
OnCloseNoClear(code, fsOk) ==
  /\ UNCHANGED timer
  /\ IF ~fsOk
     THEN /\ uncaught' = TRUE
          /\ UNCHANGED <<logFile, promiseVars>>
     ELSE /\ logFile' = LogLines(code)
          /\ Resolve(CloseResult(code), "close")
          /\ UNCHANGED uncaught

\* lines 150-255: child.on('close').  writeFileSync of the log may throw;
\* the exception leaves the handler before resolve is reached.
OnClose(code, fsOk) ==
  /\ timer' = ClearTimeout(timer)
  /\ IF ~fsOk
     THEN /\ uncaught' = TRUE
          /\ UNCHANGED <<logFile, promiseVars>>
     ELSE /\ logFile' = LogLines(code)
          /\ Resolve(CloseResult(code), "close")
          /\ UNCHANGED uncaught

\* variant of the error handler: the timer is left running
OnErrorNoClear ==
  /\ UNCHANGED timer
  /\ Resolve(SpawnErrorResult, "error")

\* lines 257-265: child.on('error')
OnError ==
  /\ timer' = ClearTimeout(timer)
  /\ Resolve(SpawnErrorResult, "error")

(***************************************************************************)
(* Events of one invocation                                                *)
(***************************************************************************)
Call ==
  /\ \E fsOk \in BOOLEAN, spawnOk \in BOOLEAN : RunContainerAgent(fsOk, spawnOk)
  /\ UNCHANGED exceptLife

\* a 'data' event on stdout: streams deliver data until 'close'
StdoutEvent(units, maxChunk) ==
  \E chunk \in Chunks(units, maxChunk) :
    /\ pc = "Running" /\ ~uncaught
    /\ child \in {"running", "exited"}
    /\ outTotal + Len(chunk) <= MaxTotal
    /\ outTotal' = outTotal + Len(chunk)
    /\ outFirst' = FirstUnits(outFirst \o chunk, AGENT_MAX_OUTPUT_SIZE)
    /\ OnStdoutData(chunk)
    /\ UNCHANGED <<pc, promiseVars, timer, child, exitCode, errVars, logFile, uncaught>>
    /\ UNCHANGED exceptLife

StdoutData == StdoutEvent(LifeOutUnits, MaxChunk)

\* a 'data' event on stderr
StderrData ==
  \E chunk \in Chunks(ErrUnits, MaxChunk) :
    /\ pc = "Running" /\ ~uncaught
    /\ child \in {"running", "exited"}
    /\ errTotal + Len(chunk) <= MaxTotal
    /\ errTotal' = errTotal + Len(chunk)
    /\ errFirst' = FirstUnits(errFirst \o chunk, AGENT_MAX_OUTPUT_SIZE)
    /\ OnStderrData(chunk)
    /\ UNCHANGED <<pc, promiseVars, timer, child, exitCode, outVars, logFile, uncaught>>
    /\ UNCHANGED exceptLife

\* the worker process ends: by itself with a code, or by the signal
ChildExit ==
  /\ pc = "Running" /\ ~uncaught
  /\ child = "running"
  /\ child' = "exited"
  /\ \E code \in (IF sigkill THEN {Null} ELSE ExitCodes) : exitCode' = code
  /\ UNCHANGED <<pc, promiseVars, timer, killVars, outVars, errVars, logFile, uncaught>>
  /\ UNCHANGED exceptLife

\* variant of the registration: the handler runs on 'exit', when the process
\* ends and its streams may still hold data
ChildCloseOnExit ==
  /\ pc = "Running" /\ ~uncaught
  /\ child = "running"
  /\ child' = "exited"
  /\ \E code \in (IF sigkill THEN {Null} ELSE ExitCodes), fsOk \in BOOLEAN :
       exitCode' = code /\ OnClose(code, fsOk)
  /\ UNCHANGED <<pc, killVars, outVars, errVars>>
  /\ UNCHANGED exceptLife

\* the 'close' event: the process has ended and its streams are closed
ChildClose ==
  /\ pc = "Running" /\ ~uncaught
  /\ child \in {"exited", "failed"}
  /\ child' = "closed"
  /\ \E fsOk \in BOOLEAN : OnClose(exitCode, fsOk)
  /\ UNCHANGED <<pc, exitCode, killVars, outVars, errVars>>
  /\ UNCHANGED exceptLife

\* the 'error' event of a failed spawn, emitted on the next tick
ChildError ==
  /\ pc = "Running" /\ ~uncaught
  /\ child = "spawnfail"
  /\ child' = "failed"
  /\ exitCode' = SpawnFailCode
  /\ OnError
  /\ UNCHANGED <<pc, killVars, outVars, errVars, logFile, uncaught>>
  /\ UNCHANGED exceptLife

\* the timer expires; next-tick callbacks (the spawn 'error') run before timers
TimerFire ==
  /\ pc = "Running" /\ ~uncaught
  /\ timer = "pending"
  /\ child # "spawnfail"
  /\ OnTimeout
  /\ UNCHANGED <<pc, child, exitCode, outVars, errVars, logFile, uncaught>>
  /\ UNCHANGED exceptLife

LifeInit ==
  /\ pc = "Spawning"
  /\ promise = "pending"
  /\ result = NoResult
  /\ resolvedBy = "none"
  /\ timer = "unset"
  /\ child = "none"
  /\ exitCode = "none"
  /\ sigkill = FALSE
  /\ killedBy = {}
  /\ stdout = <<>>
  /\ stderr = <<>>
  /\ stdoutTruncated = FALSE
  /\ stderrTruncated = FALSE
  /\ outTotal = 0
  /\ errTotal = 0
  /\ outFirst = <<>>
  /\ errFirst = <<>>
  /\ logFile = NoLog
  /\ uncaught = FALSE

(***************************************************************************)
(* writeTasksSnapshot and writeGroupsSnapshot                              *)
(***************************************************************************)
Folders == {"main", "alpha", "beta"}
TaskIds == {"t1"}
\* the fields of a task the snapshot writer reads
Task == [id : TaskIds, groupFolder : Folders]
Jids == {"j1", "j2"}
AvailableGroup == [jid : Jids]
TaskLists == SeqsUpTo(Task, MaxTasks)
GroupLists == SeqsUpTo(AvailableGroup, MaxGroups)

SnapArgs == [groupFolder : Folders, isMain : BOOLEAN, tasks : TaskLists,
             groups : GroupLists]
NoArgs == [groupFolder |-> "main", isMain |-> TRUE, tasks |-> <<>>, groups |-> <<>>]

\* a file: absent, empty (opened with truncation, nothing written yet) or
\* complete; value is the JSON value its text encodes
AbsentFile == [state |-> "absent", value |-> <<>>]
EmptyFile == [state |-> "empty", value |-> <<>>]
CompleteFile(v) == [state |-> "complete", value |-> v]
NoRead == [file |-> "none", content |-> AbsentFile]

\* variant of the filter: every task is written for every tenant
FilteredTasksAll(groupFolder, isMain, tasks) == tasks

\* lines 286-289: main sees all tasks, others only their own
FilteredTasks(groupFolder, isMain, tasks) ==
  IF isMain
  THEN tasks
  ELSE SelectSeq(tasks, LAMBDA t : t.groupFolder = groupFolder)

\* line 317: main sees all groups, others none
VisibleGroups(isMain, groups) == IF isMain THEN groups ELSE <<>>

\* lines 269-291: writeTasksSnapshot up to the open of current_tasks.json;
\* writeFileSync opens the file with truncation before it writes
WriteTasksBegin ==
  /\ snapPc = "idle"
  /\ \E fsOk \in BOOLEAN :
       IF fsOk
       THEN snapPc' = "tasks" /\ tasksFile' = EmptyFile
       ELSE snapPc' = "threw" /\ UNCHANGED tasksFile
  /\ UNCHANGED <<snapArgs, groupsFile, snapRead>>
  /\ UNCHANGED exceptSnap

\* line 292: the text of the filtered tasks is written
WriteTasksEnd ==
  /\ snapPc = "tasks"
  /\ tasksFile' = CompleteFile(FilteredTasks(snapArgs.groupFolder, snapArgs.isMain,
                                             snapArgs.tasks))
  /\ snapPc' = "idle"
  /\ UNCHANGED <<snapArgs, groupsFile, snapRead>>
  /\ UNCHANGED exceptSnap

\* lines 307-319: writeGroupsSnapshot up to the open of available_groups.json
WriteGroupsBegin ==
  /\ snapPc = "idle"
  /\ \E fsOk \in BOOLEAN :
       IF fsOk
       THEN snapPc' = "groups" /\ groupsFile' = EmptyFile
       ELSE snapPc' = "threw" /\ UNCHANGED groupsFile
  /\ UNCHANGED <<snapArgs, tasksFile, snapRead>>
  /\ UNCHANGED exceptSnap

\* lines 320-323: the text of { groups, lastSync } is written
WriteGroupsEnd ==
  /\ snapPc = "groups"
  /\ groupsFile' = CompleteFile(VisibleGroups(snapArgs.isMain, snapArgs.groups))
  /\ snapPc' = "idle"
  /\ UNCHANGED <<snapArgs, tasksFile, snapRead>>
  /\ UNCHANGED exceptSnap

\* the worker reads one of the snapshot files of its IPC directory
SnapshotRead ==
  /\ \/ snapRead' = [file |-> "tasks", content |-> tasksFile]
     \/ snapRead' = [file |-> "groups", content |-> groupsFile]
  /\ UNCHANGED <<snapPc, snapArgs, tasksFile, groupsFile>>
  /\ UNCHANGED exceptSnap

SnapIdle ==
  /\ snapPc = "idle"
  /\ snapArgs = NoArgs
  /\ tasksFile = AbsentFile
  /\ groupsFile = AbsentFile
  /\ snapRead = NoRead

(***************************************************************************)
(* buildAgentEnv                                                           *)
(***************************************************************************)
\* A path is the sequence of its segments, from the root of the file system.
\* process.cwd() of the host
PROJECT_ROOT == <<"app">>
\* imported from config.js
GROUPS_DIR == <<"app", "groups">>
DATA_DIR == <<"app", "data">>

Tenants == {"T1", "T2"}

\* values of RegisteredGroup.folder, split at '/': plain names, the name
\* 'global', a name with a subdirectory, './alpha' and a name that climbs out
\* of the groups directory
GroupFolders ==
  {<<"main">>, <<"alpha">>, <<"beta">>, <<"global">>, <<"alpha", "logs">>,
   <<".", "alpha">>, <<"..", "data", "ipc", "beta">>}

RegisteredGroup == [folder : GroupFolders, isMain : BOOLEAN]

\* an object without entries
EmptyEnv == [n \in {} |-> <<>>]

\* values of process.env: without entries, with the credentials, and with
\* the credentials and entries named like the workspace variables
HostEnvs ==
  {EmptyEnv,
   "ANTHROPIC_API_KEY" :> <<"sk">>,
   ("ANTHROPIC_API_KEY" :> <<"sk">>) @@ ("WORKSPACE_PROJECT" :> <<"srv", "host">>)
     @@ ("WORKSPACE_GROUP" :> <<"srv", "stale">>)}

\* path.normalize: '.' and empty segments are dropped, '..' removes the
\* segment before it and stays at the root
RECURSIVE NormalizeFrom(_, _)
NormalizeFrom(done, rest) ==
  IF rest = <<>> THEN done
  ELSE LET seg == Head(rest)
       IN IF seg \in {".", ""} THEN NormalizeFrom(done, Tail(rest))
          ELSE IF seg = ".."
               THEN NormalizeFrom(IF done = <<>> THEN <<>>
                                  ELSE SubSeq(done, 1, Len(done) - 1), Tail(rest))
               ELSE NormalizeFrom(Append(done, seg), Tail(rest))

\* path.join(base, rel)
PathJoin(base, rel) == NormalizeFrom(<<>>, base \o rel)

\* lines 50-53: the directories of a group
GroupDir(folder) == PathJoin(GROUPS_DIR, folder)
GlobalDir == PathJoin(GROUPS_DIR, <<"global">>)
GroupIpcDir(folder) == PathJoin(DATA_DIR, <<"ipc">> \o folder)
GroupSessionsDir(folder) == PathJoin(DATA_DIR, <<"sessions">> \o folder \o <<".claude">>)

\* lines 56-59: the directories mkdirSync is called with, in order
MkDirCalls(folder) ==
  <<GroupDir(folder),
    PathJoin(GroupIpcDir(folder), <<"messages">>),
    PathJoin(GroupIpcDir(folder), <<"tasks">>),
    GroupSessionsDir(folder)>>

\* mkdirSync(p, { recursive: true }) creates p and its missing ancestors
Ancestors(p) == {SubSeq(p, 1, k) : k \in 1..Len(p)}

\* lines 61-73: the entries of process.env, overridden by the four workspace
\* entries, and WORKSPACE_PROJECT set for the main group
BuildAgentEnv(folder, isMain, processEnv) ==
  (IF isMain THEN "WORKSPACE_PROJECT" :> PROJECT_ROOT ELSE EmptyEnv)
    @@ ("WORKSPACE_GROUP" :> GroupDir(folder))
    @@ ("WORKSPACE_GLOBAL" :> GlobalDir)
    @@ ("WORKSPACE_IPC" :> GroupIpcDir(folder))
    @@ ("CLAUDE_CONFIG_DIR" :> GroupSessionsDir(folder))
    @@ processEnv

\* lines 48-74 for the group of tenant t: the n-th mkdirSync may throw, which
\* leaves the directories made so far; after four the environment is returned
BuildEnv(t) ==
  /\ envPc[t] = "idle"
  /\ \E n \in 0..4 :
       LET calls == MkDirCalls(registry[t].folder)
       IN /\ dirs' = dirs \cup UNION {Ancestors(calls[k]) : k \in 1..n}
          /\ IF n = 4
             THEN /\ envPc' = [envPc EXCEPT ![t] = "built"]
                  /\ agentEnv' = [agentEnv EXCEPT ![t] =
                       BuildAgentEnv(registry[t].folder, registry[t].isMain, hostEnv)]
             ELSE /\ envPc' = [envPc EXCEPT ![t] = "threw"]
                  /\ UNCHANGED agentEnv
  /\ UNCHANGED <<hostEnv, registry, files>>
  /\ UNCHANGED exceptEnv

\* the entries of the environment that name a directory of the tenant itself
OwnDirs == {"WORKSPACE_GROUP", "WORKSPACE_IPC", "CLAUDE_CONFIG_DIR"}

\* lines 96-100: the worker runs with the environment; it writes a file into
\* one of its own directories
WorkerWrite(t) ==
  /\ envPc[t] = "built"
  /\ \E k \in OwnDirs :
       files' = files \cup {[writer |-> t, path |-> Append(agentEnv[t][k], "note")]}
  /\ UNCHANGED <<hostEnv, registry, envPc, agentEnv, dirs>>
  /\ UNCHANGED exceptEnv

DefaultRegistry == [t \in Tenants |-> [folder |-> <<"main">>, isMain |-> FALSE]]

EnvIdle ==
  /\ hostEnv = EmptyEnv
  /\ registry = DefaultRegistry
  /\ envPc = [t \in Tenants |-> "idle"]
  /\ agentEnv = [t \in Tenants |-> EmptyEnv]
  /\ dirs = {}
  /\ files = {}

(***************************************************************************)
(* The IPC mailbox and the authorization policy (spec 3, 4.2, 4.3)         *)
(***************************************************************************)
\* the privileged tenant
MainTenant == "main"

\* the chat of a tenant
ChatOf(tenant) == <<"chat", tenant>>

MailFiles == {"f1", "f2"}
KnownTasks == {"k1", "k2"}
\* the id the host gives the task a schedule entry of file f creates
NewTaskId(f) == <<"new", f>>
TaskKeys == {<<k>> : k \in KnownTasks} \cup {NewTaskId(f) : f \in MailFiles}

\* mailbox entries: an outgoing message to a chat; pause, resume and cancel of
\* a task, with the owner the requester claims; schedule of a new task for a
\* tenant; refresh_groups
MessageEntry(chat) == [op |-> "message", target |-> chat, taskId |-> <<>>]
TaskOpEntry(op, key, claimedOwner) ==
  [op |-> op, target |-> <<"owner", claimedOwner>>, taskId |-> key]
ScheduleEntry(tenant) == [op |-> "schedule", target |-> <<"owner", tenant>>, taskId |-> <<>>]
RefreshEntry == [op |-> "refresh_groups", target |-> <<>>, taskId |-> <<>>]

MailboxEntries ==
  {MessageEntry(ChatOf(t)) : t \in Folders}
    \cup {TaskOpEntry(op, <<k>>, o) : op \in {"pause", "resume", "cancel"},
                                     k \in KnownTasks, o \in {"alpha", "beta"}}
    \cup {ScheduleEntry(t) : t \in {"alpha", "beta"}}
    \cup {RefreshEntry}

\* the entries of the workers of the two-file scenario
ScenarioEntries ==
  {MessageEntry(ChatOf("alpha")), MessageEntry(ChatOf("beta")),
   TaskOpEntry("cancel", <<"k2">>, "alpha")}

NoEntry == [op |-> "none", target |-> <<>>, taskId |-> <<>>]
\* a mailbox file: absent, under its temporary name (partly or fully
\* written), under its final name, or removed by the consumer
NoFile == [state |-> "absent", entry |-> NoEntry]

NoTask == [owner |-> "none", status |-> "absent"]

\* variant of the policy: the owner named in the entry decides
AuthorizeByClaim(tenant, entry, table) ==
  \/ tenant = MainTenant
  \/ CASE entry.op = "message" -> entry.target = ChatOf(tenant)
       [] entry.op = "schedule" -> entry.target = <<"owner", tenant>>
       [] entry.op \in {"pause", "resume", "cancel"} ->
            entry.target = <<"owner", tenant>>
       [] OTHER -> FALSE

\* variant of the policy: every message is allowed
AuthorizeAnyChat(tenant, entry, table) ==
  \/ tenant = MainTenant
  \/ CASE entry.op = "message" -> TRUE
       [] entry.op = "schedule" -> entry.target = <<"owner", tenant>>
       [] entry.op \in {"pause", "resume", "cancel"} ->
            table[entry.taskId].owner = tenant
       [] OTHER -> FALSE

\* spec 4.3: authorize(tenant, operation, target)
Authorize(tenant, entry, table) ==
  \/ tenant = MainTenant
  \/ CASE entry.op = "message" -> entry.target = ChatOf(tenant)
       [] entry.op = "schedule" -> entry.target = <<"owner", tenant>>
       [] entry.op \in {"pause", "resume", "cancel"} ->
            table[entry.taskId].owner = tenant
       [] OTHER -> FALSE

\* the task set after an allowed task operation of file f
ApplyTaskOp(f, entry, table) ==
  CASE entry.op = "schedule" ->
         [table EXCEPT ![NewTaskId(f)] = [owner |-> entry.target[2], status |-> "active"]]
    [] entry.op = "pause" /\ table[entry.taskId].status = "active" ->
         [table EXCEPT ![entry.taskId].status = "paused"]
    [] entry.op = "resume" /\ table[entry.taskId].status = "paused" ->
         [table EXCEPT ![entry.taskId].status = "active"]
    [] entry.op = "cancel" /\ table[entry.taskId].status # "absent" ->
         [table EXCEPT ![entry.taskId].status = "cancelled"]
    [] OTHER -> table

\* spec 4.2, worker: the entry is written under a temporary name
WorkerTempOpen(f, entries) ==
  /\ mailbox[f].state = "absent"
  /\ \E e \in entries : mailbox' = [mailbox EXCEPT ![f] = [state |-> "partial", entry |-> e]]
  /\ UNCHANGED <<sourceGroup, consumerPc, listed, current, sent, taskTable, refreshed,
                 applied, denied>>
  /\ UNCHANGED exceptMail

WorkerTempDone(f) ==
  /\ mailbox[f].state = "partial"
  /\ mailbox' = [mailbox EXCEPT ![f].state = "temp"]
  /\ UNCHANGED <<sourceGroup, consumerPc, listed, current, sent, taskTable, refreshed,
                 applied, denied>>
  /\ UNCHANGED exceptMail

\* spec 4.2, worker: the atomic rename to the final name
WorkerRename(f) ==
  /\ mailbox[f].state = "temp"
  /\ mailbox' = [mailbox EXCEPT ![f].state = "final"]
  /\ UNCHANGED <<sourceGroup, consumerPc, listed, current, sent, taskTable, refreshed,
                 applied, denied>>
  /\ UNCHANGED exceptMail

\* variant of the listing: temporary names are listed too
ConsumerListAll ==
  /\ consumerPc = "idle"
  /\ listed' = {f \in MailFiles : mailbox[f].state \in {"partial", "temp", "final"}}
  /\ consumerPc' = "scan"
  /\ UNCHANGED <<sourceGroup, mailbox, current, sent, taskTable, refreshed, applied, denied>>
  /\ UNCHANGED exceptMail

\* spec 4.2, host: the directory is listed; only final names count
ConsumerList ==
  /\ consumerPc = "idle"
  /\ listed' = {f \in MailFiles : mailbox[f].state = "final"}
  /\ consumerPc' = "scan"
  /\ UNCHANGED <<sourceGroup, mailbox, current, sent, taskTable, refreshed, applied, denied>>
  /\ UNCHANGED exceptMail

\* spec 4.2 and 4.3, host: one listed file is read and its entry goes through
\* the policy; an allowed entry takes effect, a denied one is logged
ConsumerProcess(f) ==
  /\ consumerPc = "scan"
  /\ f \in listed
  /\ LET entry == mailbox[f].entry
     IN IF Authorize(sourceGroup, entry, taskTable)
        THEN /\ sent' = IF entry.op = "message"
                        THEN Append(sent, [chat |-> entry.target, file |-> f])
                        ELSE sent
             /\ taskTable' = ApplyTaskOp(f, entry, taskTable)
             /\ refreshed' = (refreshed \/ entry.op = "refresh_groups")
             /\ UNCHANGED denied
        ELSE /\ denied' = denied \cup {f}
             /\ UNCHANGED <<sent, taskTable, refreshed>>
  /\ applied' = [applied EXCEPT ![f] = @ + 1]
  /\ current' = f
  /\ consumerPc' = "delete"
  /\ UNCHANGED <<sourceGroup, mailbox, listed>>
  /\ UNCHANGED exceptMail

\* spec 4.2, host: the processed file is deleted
ConsumerDelete ==
  /\ consumerPc = "delete"
  /\ mailbox' = [mailbox EXCEPT ![current].state = "removed"]
  /\ listed' = listed \ {current}
  /\ consumerPc' = "scan"
  /\ UNCHANGED <<sourceGroup, current, sent, taskTable, refreshed, applied, denied>>
  /\ UNCHANGED exceptMail

\* the scan of the listing is over
ConsumerDone ==
  /\ consumerPc = "scan"
  /\ listed = {}
  /\ consumerPc' = "idle"
  /\ UNCHANGED <<sourceGroup, mailbox, listed, current, sent, taskTable, refreshed,
                 applied, denied>>
  /\ UNCHANGED exceptMail

\* task k1 belongs to tenant beta, task k2 to tenant alpha
InitialTasks(s1, s2) ==
  [k \in TaskKeys |->
     IF k = <<"k1">> THEN [owner |-> "beta", status |-> s1]
     ELSE IF k = <<"k2">> THEN [owner |-> "alpha", status |-> s2]
     ELSE NoTask]

MailIdle ==
  /\ sourceGroup = MainTenant
  /\ mailbox = [f \in MailFiles |-> NoFile]
  /\ consumerPc = "idle"
  /\ listed = {}
  /\ current = "f1"
  /\ sent = <<>>
  /\ taskTable = InitialTasks("active", "active")
  /\ refreshed = FALSE
  /\ applied = [f \in MailFiles |-> 0]
  /\ denied = {}

(***************************************************************************)
(* The task scheduler (spec 3, 4.5)                                        *)
(***************************************************************************)
\* next_run of a task that will not run again
NullTime == -1

SchedIds == {"s1", "s2"}

\* schedule kinds with their values: a time for once, a number of seconds
\* for interval, the period of the cron expression for cron
ScheduleKinds ==
  {[kind |-> "once", value |-> 0], [kind |-> "interval", value |-> 1],
   [kind |-> "interval", value |-> 2], [kind |-> "cron", value |-> 2]}

\* the next time after t at which a cron expression of period p matches
NextCron(p, t) == ((t \div p) + 1) * p

\* spec 4.5: load all tasks with status active and next_run <= now
Due(task, t) == task.status = "active" /\ task.next_run <= t

\* variant of the update: a task whose invocation failed is left as it is
AfterRunOnSuccess(task, outcome, t) ==
  IF outcome = "error" THEN task
  ELSE IF task.kind = "once"
       THEN [task EXCEPT !.status = "cancelled", !.next_run = NullTime]
       ELSE [task EXCEPT !.next_run =
               IF task.kind = "interval" THEN t + task.value ELSE NextCron(task.value, t)]

\* spec 4.5: on completion a once task becomes cancelled, any other task has
\* next_run recomputed relative to now, whatever the outcome
AfterRun(task, outcome, t) ==
  IF task.kind = "once"
  THEN [task EXCEPT !.status = "cancelled", !.next_run = NullTime]
  ELSE [task EXCEPT !.next_run =
          IF task.kind = "interval" THEN t + task.value ELSE NextCron(task.value, t)]

\* time passes
ClockTick ==
  /\ now < MaxNow
  /\ now' = now + 1
  /\ UNCHANGED <<schedule, schedPc, running, lastRun>>
  /\ UNCHANGED exceptSched

\* spec 4.5: the tick invokes the lifecycle manager for a due task
SchedulerRun(id) ==
  /\ schedPc = "idle"
  /\ Due(schedule[id], now)
  /\ schedPc' = "running"
  /\ running' = id
  /\ UNCHANGED <<now, schedule, lastRun>>
  /\ UNCHANGED exceptSched

\* spec 4.5: the invocation completed with success or with error
SchedulerComplete ==
  /\ schedPc = "running"
  /\ \E outcome \in {"success", "error"} :
       /\ schedule' = [schedule EXCEPT ![running] = AfterRun(@, outcome, now)]
       /\ lastRun' = [id |-> running, at |-> now, outcome |-> outcome]
  /\ schedPc' = "idle"
  /\ UNCHANGED <<now, running>>
  /\ UNCHANGED exceptSched

NoRun == [id |-> "none", at |-> NullTime, outcome |-> "none"]

SchedIdle ==
  /\ now = 0
  /\ schedule = [id \in SchedIds |->
                   [kind |-> "once", value |-> 0, status |-> "paused", next_run |-> 0]]
  /\ schedPc = "idle"
  /\ running = "s1"
  /\ lastRun = NoRun

Init == LifeInit /\ SnapIdle /\ EnvIdle /\ MailIdle /\ SchedIdle

Next ==
  \/ Call
  \/ StdoutData
  \/ StderrData
  \/ ChildExit
  \/ ChildClose
  \/ ChildError
  \/ TimerFire

Spec == Init /\ [][Next]_vars


(***************************************************************************)
(* The parsing specification: a worker that is started, writes any text    *)
(* to stdout, ends and is closed before the timer expires                  *)
(***************************************************************************)
ParseCall ==
  /\ RunContainerAgent(TRUE, TRUE)
  /\ UNCHANGED exceptLife

StdoutDataAny == StdoutEvent(OutUnits, ParseChunk)

ParseNext ==
  \/ ParseCall
  \/ StdoutDataAny
  \/ ChildExit
  \/ ChildClose

SpecParse == Init /\ [][ParseNext]_vars

(***************************************************************************)
(* Properties of runContainerAgent                                         *)
(***************************************************************************)
\* the close handler has settled the promise of a worker that exited with 0
CompletedZero == child = "closed" /\ exitCode = "0" /\ resolvedBy = "close"

\* the spawn of this invocation failed
SpawnFailed == child = "spawnfail" \/ exitCode = SpawnFailCode

\* marker m occurs in text t at position i (1-based)
MarkerAt(t, m, i) == i >= 1 /\ i + Len(m) - 1 <= Len(t) /\ SubSeq(t, i, i + Len(m) - 1) = m

NoMarker(t) ==
  \A i \in 1..Len(t) :
    ~MarkerAt(t, OUTPUT_START_MARKER, i) /\ ~MarkerAt(t, OUTPUT_END_MARKER, i)

\* document doc stands between a start marker at i and an end marker at j
Framed(t, i, j, doc) ==
  /\ MarkerAt(t, OUTPUT_START_MARKER, i)
  /\ MarkerAt(t, OUTPUT_END_MARKER, j)
  /\ i + Len(OUTPUT_START_MARKER) <= j
  /\ Trim(SubSeq(t, i + Len(OUTPUT_START_MARKER), j - 1)) = <<doc>>

\* no start marker is followed by an end marker
NoMarkerPair(t) ==
  ~\E i, j \in 1..Len(t) :
      /\ MarkerAt(t, OUTPUT_START_MARKER, i)
      /\ MarkerAt(t, OUTPUT_END_MARKER, j)
      /\ i + Len(OUTPUT_START_MARKER) <= j

NonBlank(line) == \E k \in 1..Len(line) : line[k] \notin WhiteSpace

\* the last line of t that holds more than whitespace, or the empty text
LastNonEmptyLine(t) ==
  LET ls == SplitLines(t)
      idx == {k \in 1..Len(ls) : NonBlank(ls[k])}
  IN IF idx = {} THEN <<>> ELSE ls[CHOOSE k \in idx : \A m \in idx : m <= k]

\* C1: both captured buffers stay within AGENT_MAX_OUTPUT_SIZE in every state,
\* and a buffer flagged truncated is never changed by a later step.
C1_BoundedBuffers ==
  /\ [](Len(stdout) <= AGENT_MAX_OUTPUT_SIZE /\ Len(stderr) <= AGENT_MAX_OUTPUT_SIZE)
  /\ [][/\ stdoutTruncated => (stdout' = stdout /\ stdoutTruncated')
        /\ stderrTruncated => (stderr' = stderr /\ stderrTruncated')]_vars

\* C1 witness: both buffers are full and flagged, and stdout has discarded more
\* than one chunk can hold, so a data event arrived after the flag was set.
C1_Witness ==
  /\ stdoutTruncated /\ stderrTruncated
  /\ Len(stdout) = AGENT_MAX_OUTPUT_SIZE /\ Len(stderr) = AGENT_MAX_OUTPUT_SIZE
  /\ outTotal - Len(stdout) > MaxChunk

\* C2 as stated: an invocation resolved by the timeout has killed the child,
\* carries the timeout result, and its process has terminated.
C2_Original ==
  resolvedBy = "timeout" =>
    /\ result = TimeoutResult
    /\ "timeout" \in killedBy
    /\ child \in {"exited", "closed"}

\* C2 amended: once the timer has fired the invocation is resolved with the
\* timeout result, child.kill was called, and a process that was still running
\* has SIGKILL delivered; its termination is not awaited.
C2_TimeoutKillsAndResolves ==
  timer = "fired" =>
    /\ promise = "resolved" /\ resolvedBy = "timeout"
    /\ result = TimeoutResult
    /\ "timeout" \in killedBy
    /\ (child = "running" => sigkill)

\* C2 witness: resolved with the timeout result while the killed process has
\* not yet ended.
C2_Witness ==
  timer = "fired" /\ result = TimeoutResult /\ child = "running" /\ sigkill

\* C3: the promise is never rejected and no exception escapes into the host.
C3_NeverRejects == promise # "rejected" /\ ~uncaught

\* C4 as stated: whatever surrounds it, a document framed by the two markers
\* in the captured stdout of a worker that exited with 0 is the result.
C4_Original ==
  \A doc \in JsonDocs :
    (CompletedZero /\ \E i, j \in 1..Len(stdout) : Framed(stdout, i, j, doc))
      => result = JsonValue(doc)

\* C4 amended: a document framed by the two markers in the captured stdout is
\* the result when the text before the start marker holds neither marker;
\* the text after the end marker is arbitrary.
C4_RoundTrip ==
  \A doc \in JsonDocs : \A i, j \in 1..Len(stdout) :
    (CompletedZero /\ Framed(stdout, i, j, doc) /\ NoMarker(SubSeq(stdout, 1, i - 1)))
      => result = JsonValue(doc)

\* C4 witness: a log unit, then the framed error document, and output after
\* the end marker that the cap discarded.
C4_Witness ==
  /\ CompletedZero
  /\ stdout = <<"x", "S", "J_ER", "E">>
  /\ outTotal > Len(stdout)
  /\ result = JsonValue("J_ER")

\* C5 as stated: after a started worker closed with a code other than 0, the
\* result of the invocation carries the code and the stderr excerpt.
C5_Original ==
  (child = "closed" /\ exitCode # "0" /\ ~SpawnFailed /\ promise = "resolved") =>
    /\ result.status = "error" /\ result.result = Null
    /\ result.error = <<"Agent exited with code", exitCode>>
                        \o SubSeq(stderr, Max(Len(stderr) - STDERR_EXCERPT, 0) + 1, Len(stderr))

\* C5 amended: after a close with a code other than 0 the resolved result has
\* status error and result null, whichever callback resolved it, and when the
\* close handler settled the promise the error carries the code and the last
\* STDERR_EXCERPT units of stderr; stdout is not parsed.
C5_NonZeroExit ==
  (child = "closed" /\ exitCode # "0" /\ promise = "resolved") =>
    /\ result.status = "error" /\ result.result = Null
    /\ resolvedBy = "close" =>
         result.error = <<"Agent exited with code", exitCode>>
                          \o SubSeq(stderr, Max(Len(stderr) - STDERR_EXCERPT, 0) + 1, Len(stderr))

\* C5 witness: a signal ended the worker (null code), stdout holds a success
\* document, stderr is longer than the excerpt.
C5_Witness ==
  /\ child = "closed" /\ exitCode = Null /\ resolvedBy = "close"
  /\ stdout = <<"J_OK">>
  /\ Len(stderr) > STDERR_EXCERPT
  /\ result.status = "error"

\* C6: without a marker pair in the captured stdout of a worker that exited
\* with 0, the result is the JSON value of the last non-empty line, or the
\* parse error when that line is no JSON document.
C6_FallbackLastLine ==
  (CompletedZero /\ NoMarkerPair(stdout)) =>
    LET parsed == JSONParse(LastNonEmptyLine(stdout))
    IN result = IF parsed.ok THEN parsed.value ELSE ParseErrorResult

\* C6 witness: a log line, then the document on the last non-empty line.
C6_Witness ==
  /\ CompletedZero
  /\ stdout = <<"x", "\n", "J_OK", "\n">>
  /\ result = JsonValue("J_OK")

\* C7 as stated: for a failed spawn no timer is ever started.
C7_Original == SpawnFailed => timer = "unset"

\* C7 amended: for a failed spawn the timer is started and then cancelled by
\* the error handler; it never fires, child.kill is never called, and after
\* the 'error' event the invocation is resolved with the spawn error.
C7_SpawnErrorCancelsTimer ==
  SpawnFailed =>
    /\ timer \in {"pending", "cleared"}
    /\ killedBy = {}
    /\ child # "spawnfail" =>
         /\ timer = "cleared"
         /\ promise = "resolved" /\ resolvedBy = "error"
         /\ result = SpawnErrorResult

\* C7 witness: the failed spawn has emitted 'error' and then 'close'.
C7_Witness ==
  child = "closed" /\ exitCode = SpawnFailCode /\ timer = "cleared" /\ resolvedBy = "error"

\* C8: the close handler runs only once the child is closed, no step changes
\* a buffer after that, and the result of a worker that exited with 0 is the
\* parse of the final captured stdout.
C8_ParseAfterClose ==
  /\ []((logFile # NoLog \/ resolvedBy = "close") => child = "closed")
  /\ [][(logFile # NoLog \/ child = "closed") =>
          /\ stdout' = stdout /\ stderr' = stderr
          /\ stdoutTruncated' = stdoutTruncated /\ stderrTruncated' = stderrTruncated]_vars
  /\ []((resolvedBy = "close" /\ exitCode = "0") => result = ParseOutput(stdout))

\* C8 witness: the close handler has parsed output that arrived on both streams.
C8_Witness ==
  /\ child = "closed" /\ resolvedBy = "close" /\ exitCode = "0"
  /\ stdout = <<"x", "J_OK">> /\ stderr # <<>>

\* C9: child.kill is called by the timeout callback only, and a signal has
\* been delivered only after the timer fired.
C9_OnlyTimeoutKills ==
  /\ killedBy \subseteq {"timeout"}
  /\ (killedBy # {} \/ sigkill) => timer = "fired"

\* C9 witness: a worker that exceeded the cap on both streams exited with 0,
\* never killed.
C9_Witness ==
  /\ stdoutTruncated /\ stderrTruncated
  /\ child = "closed" /\ exitCode = "0"
  /\ killedBy = {} /\ ~sigkill


(***************************************************************************)
(* The snapshot specification: the host writes both snapshots for one      *)
(* tenant, any number of times, while a worker may read them               *)
(***************************************************************************)
SnapInit ==
  /\ LifeInit
  /\ snapPc = "idle"
  /\ snapArgs \in SnapArgs
  /\ tasksFile = AbsentFile
  /\ groupsFile = AbsentFile
  /\ snapRead = NoRead
  /\ EnvIdle
  /\ MailIdle
  /\ SchedIdle

SnapNext ==
  \/ WriteTasksBegin
  \/ WriteTasksEnd
  \/ WriteGroupsBegin
  \/ WriteGroupsEnd
  \/ SnapshotRead

SpecSnap == SnapInit /\ [][SnapNext]_vars

\* the number of occurrences of t in list
Count(list, t) == Cardinality({k \in 1..Len(list) : list[k] = t})

C11_AtomicSnapshot ==
  snapRead.file # "none" => snapRead.content.state \in {"absent", "complete"}


(***************************************************************************)
(* The environment specification: two registered groups with different     *)
(* folders, at most one of them the main group; the host builds the        *)
(* environment of each and the workers write into their directories        *)
(***************************************************************************)
EnvInit ==
  /\ LifeInit
  /\ SnapIdle
  /\ hostEnv \in HostEnvs
  /\ registry \in {r \in [Tenants -> RegisteredGroup] :
                     /\ \A t1, t2 \in Tenants : t1 # t2 => r[t1].folder # r[t2].folder
                     /\ \A t1, t2 \in Tenants : (r[t1].isMain /\ r[t2].isMain) => t1 = t2}
  /\ envPc = [t \in Tenants |-> "idle"]
  /\ agentEnv = [t \in Tenants |-> EmptyEnv]
  /\ dirs = {}
  /\ files = {}
  /\ MailIdle
  /\ SchedIdle

EnvNext == \E t \in Tenants : BuildEnv(t) \/ WorkerWrite(t)

SpecEnv == EnvInit /\ [][EnvNext]_vars

\* C12: the environment built for a tenant that is not the main group has no
\* WORKSPACE_PROJECT entry, whatever process.env holds, and the one built for
\* the main group has the host's project root as WORKSPACE_PROJECT.
C12_ProjectRootOnlyForMain ==
  \A t \in Tenants :
    envPc[t] = "built" =>
      IF registry[t].isMain
      THEN /\ "WORKSPACE_PROJECT" \in DOMAIN agentEnv[t]
           /\ agentEnv[t]["WORKSPACE_PROJECT"] = PROJECT_ROOT
      ELSE "WORKSPACE_PROJECT" \notin DOMAIN agentEnv[t]

\* path p is directory d or lies below it
Under(p, d) == Len(d) <= Len(p) /\ SubSeq(p, 1, Len(d)) = d

\* C13: for two tenants with different folders, no working, IPC or session
\* directory of one is a directory of the other or nested inside one; the
\* working directory of a tenant is not the global-memory directory; and no
\* file a worker wrote into its directories lies under a directory resolved
\* for the other tenant.
C13_PathIsolation ==
  \A t1, t2 \in Tenants :
    (t1 # t2 /\ envPc[t1] = "built" /\ envPc[t2] = "built") =>
      /\ \A k1, k2 \in OwnDirs : ~Under(agentEnv[t1][k1], agentEnv[t2][k2])
      /\ agentEnv[t1]["WORKSPACE_GROUP"] # agentEnv[t1]["WORKSPACE_GLOBAL"]
      /\ \A f \in files :
           f.writer = t1 => \A k \in OwnDirs : ~Under(f.path, agentEnv[t2][k])


(***************************************************************************)
(* The mailbox specification: the worker of one tenant writes two mailbox  *)
(* files with any entries while the host consumes the directory            *)
(***************************************************************************)
MailInit ==
  /\ LifeInit
  /\ SnapIdle
  /\ EnvIdle
  /\ sourceGroup \in {MainTenant, "alpha"}
  /\ mailbox = [f \in MailFiles |-> NoFile]
  /\ consumerPc = "idle"
  /\ listed = {}
  /\ current = "f1"
  /\ sent = <<>>
  /\ taskTable \in {InitialTasks(s1, s2) : s1, s2 \in {"active", "paused"}}
  /\ refreshed = FALSE
  /\ applied = [f \in MailFiles |-> 0]
  /\ denied = {}
  /\ SchedIdle

WorkerNext(entries) ==
  \E f \in MailFiles :
    \/ WorkerTempOpen(f, entries)
    \/ WorkerTempDone(f)
    \/ WorkerRename(f)

ConsumerNext ==
  \/ ConsumerList
  \/ \E f \in MailFiles : ConsumerProcess(f)
  \/ ConsumerDelete
  \/ ConsumerDone

MailNext == WorkerNext(MailboxEntries) \/ ConsumerNext

SpecMail == MailInit /\ [][MailNext]_vars

\* the consumer has processed file f, which holds entry e
Processed(f, e) == applied[f] >= 1 /\ mailbox[f].entry = e

\* C14: a message entry of a non-privileged tenant to a chat that is not its
\* own is dropped, so every message sent for a non-privileged tenant went to
\* its own chat; every message entry of the privileged tenant is sent to the
\* chat it names.
C14_ForeignChatDropped ==
  /\ \A i \in 1..Len(sent) :
       sourceGroup # MainTenant => sent[i].chat = ChatOf(sourceGroup)
  /\ \A f \in MailFiles : \A t \in Folders :
       Processed(f, MessageEntry(ChatOf(t))) =>
         IF sourceGroup = MainTenant \/ t = sourceGroup
         THEN \E i \in 1..Len(sent) : sent[i] = [chat |-> ChatOf(t), file |-> f]
         ELSE /\ f \in denied
              /\ \A i \in 1..Len(sent) : sent[i].file # f

\* C14 witness: tenant alpha wrote a message for the chat of beta and one for
\* its own chat; only the second was sent.
C14_Witness ==
  /\ sourceGroup = "alpha"
  /\ Processed("f1", MessageEntry(ChatOf("beta")))
  /\ Processed("f2", MessageEntry(ChatOf("alpha")))
  /\ denied = {"f1"}
  /\ sent = <<[chat |-> ChatOf("alpha"), file |-> "f2"]>>

\* entry e of a non-privileged tenant refers to a task of another tenant: a
\* known task whose recorded owner differs, or a task to be scheduled for
\* another tenant
ForeignTaskEntry(e) ==
  /\ sourceGroup # MainTenant
  /\ \/ e.op \in {"pause", "resume", "cancel"} /\ taskTable[e.taskId].owner # sourceGroup
     \/ e.op = "schedule" /\ e.target # <<"owner", sourceGroup>>

\* C15: the step that processes a task entry of a non-privileged tenant which
\* refers to a task of another tenant leaves the persisted task set unchanged
\* and records the denial, whatever owner the entry claims.
C15_ForeignTaskUnchanged ==
  [][\A f \in MailFiles :
       (applied'[f] = applied[f] + 1 /\ ForeignTaskEntry(mailbox[f].entry))
         => (taskTable' = taskTable /\ f \in denied')]_vars

\* C15 witness: tenant alpha asked to cancel task k1 of beta, naming itself as
\* the owner; the entry was denied and the task is not cancelled.
C15_Witness ==
  /\ sourceGroup = "alpha"
  /\ Processed("f1", TaskOpEntry("cancel", <<"k1">>, "alpha"))
  /\ "f1" \in denied
  /\ taskTable[<<"k1">>] = [owner |-> "beta", status |-> "active"]

(***************************************************************************)
(* The two-file scenario: tenant alpha's worker writes two mailbox files;  *)
(* the host's consumer keeps polling                                       *)
(***************************************************************************)
ScenarioInit ==
  /\ MailInit
  /\ sourceGroup = "alpha"

ScenarioNext == WorkerNext(ScenarioEntries) \/ ConsumerNext

SpecScenario ==
  /\ ScenarioInit
  /\ [][ScenarioNext]_vars
  /\ WF_vars(ConsumerList)
  /\ WF_vars(\E f \in MailFiles : ConsumerProcess(f))
  /\ WF_vars(ConsumerDelete)
  /\ WF_vars(ConsumerDone)

\* C17: a mailbox file is processed only while it stands complete under its
\* final name, never more than once and never after its removal, and every
\* file that reached its final name is eventually processed and removed,
\* under every interleaving of the worker's and the consumer's steps.
C17_AppliedExactlyOnce ==
  /\ [](\A f \in MailFiles : applied[f] <= 1)
  /\ [][\A f \in MailFiles :
          applied'[f] # applied[f] => (mailbox[f].state = "final" /\ applied[f] = 0)]_vars
  /\ \A f \in MailFiles :
       (mailbox[f].state = "final") ~> (applied[f] = 1 /\ mailbox[f].state = "removed")

\* C17 witness: both files were processed and removed; the message of the
\* first went out once and the task of the second is cancelled.
C17_Witness ==
  /\ \A f \in MailFiles : applied[f] = 1 /\ mailbox[f].state = "removed"
  /\ mailbox["f1"].entry = MessageEntry(ChatOf("alpha"))
  /\ mailbox["f2"].entry = TaskOpEntry("cancel", <<"k2">>, "alpha")
  /\ sent = <<[chat |-> ChatOf("alpha"), file |-> "f1"]>>
  /\ taskTable[<<"k2">>].status = "cancelled"


(***************************************************************************)
(* The scheduler specification: two persisted tasks, a clock, and the      *)
(* polling loop that runs due tasks                                        *)
(***************************************************************************)
SchedInit ==
  /\ LifeInit
  /\ SnapIdle
  /\ EnvIdle
  /\ MailIdle
  /\ now = 0
  /\ schedule \in [SchedIds -> {[kind |-> k.kind, value |-> k.value, status |-> st,
                                 next_run |-> nr] :
                                  k \in ScheduleKinds, st \in {"active", "paused"},
                                  nr \in 0..1}]
  /\ schedPc = "idle"
  /\ running = "s1"
  /\ lastRun = NoRun

SchedNext ==
  \/ ClockTick
  \/ \E id \in SchedIds : SchedulerRun(id)
  \/ SchedulerComplete

SpecSched == SchedInit /\ [][SchedNext]_vars

\* C16: the step that completes the run of a due task advances its schedule
\* whatever the outcome: a once task becomes cancelled with next_run null, an
\* interval task stays active with next_run = now + value, a cron task stays
\* active with a next_run after now; the task is not due on completion.
C16_ScheduleAdvances ==
  [][(schedPc = "running" /\ schedPc' = "idle") =>
       LET before == schedule[running]
           after == schedule'[running]
       IN /\ before.kind = "once" =>
               (after.status = "cancelled" /\ after.next_run = NullTime)
          /\ before.kind = "interval" =>
               (after.status = "active" /\ after.next_run = now + before.value)
          /\ before.kind = "cron" =>
               (after.status = "active" /\ after.next_run > now)
          /\ ~Due(after, now')]_vars

\* C16 witness: the invocation of interval task s1 (value 2) failed at time 2;
\* the task is active with next_run 4.
C16_Witness ==
  /\ lastRun = [id |-> "s1", at |-> 2, outcome |-> "error"]
  /\ schedPc = "idle" /\ now = 2
  /\ schedule["s1"] = [kind |-> "interval", value |-> 2, status |-> "active",
                       next_run |-> 4]


(***************************************************************************)
(* Termination and races of one invocation                                 *)
(***************************************************************************)
\* C18: an invocation whose child has closed can receive no further event, so
\* it has resolved by then; and whenever the timer has been cancelled the
\* promise is resolved with a result.
C18_AlwaysResolves ==
  /\ child = "closed" => promise = "resolved"
  /\ timer = "cleared" => promise = "resolved"

\* C19: once resolved, the promise, its result and the callback that settled
\* it never change; a promise settled by the timeout holds the timeout
\* result and one settled by the error handler holds the spawn error, also
\* after the close handler has run.
C19_FirstResolveWins ==
  /\ [][promise = "resolved" =>
          (promise' = "resolved" /\ result' = result /\ resolvedBy' = resolvedBy)]_vars
  /\ [](resolvedBy = "timeout" => result = TimeoutResult)
  /\ [](resolvedBy = "error" => result = SpawnErrorResult)

\* C19 witness: the timeout resolved the invocation, then the killed process
\* closed and the close handler ran to its resolve call.
C19_Witness ==
  /\ resolvedBy = "timeout" /\ result = TimeoutResult
  /\ child = "closed" /\ exitCode = Null
  /\ logFile # NoLog

\* C20: once the close or the error callback has run the timer is not
\* pending and no later step fires it or calls child.kill; an invocation
\* whose timer was cancelled is not resolved by the timeout and its process
\* was never sent a signal.
C20_CancelledTimerNeverFires ==
  /\ [](child \in {"failed", "closed"} => timer \in {"cleared", "fired"})
  /\ [][(child = "failed" \/ child = "closed") =>
          (timer' = timer /\ killedBy' = killedBy /\ sigkill' = sigkill)]_vars
  /\ [](timer = "cleared" =>
          (resolvedBy # "timeout" /\ result # TimeoutResult /\ killedBy = {} /\ ~sigkill))

\* C20 witness: the worker exited with code 1 and closed before the timer
\* expired; the close handler cancelled the timer and resolved.
C20_Witness ==
  /\ child = "closed" /\ exitCode = "1"
  /\ timer = "cleared" /\ resolvedBy = "close"
  /\ killedBy = {}


(***************************************************************************)
(* The truncation flags                                                    *)
(***************************************************************************)
\* C21: for each stream the truncated flag is set exactly when more than
\* AGENT_MAX_OUTPUT_SIZE units were delivered, it is set by the step whose
\* chunk takes the total over the cap, and the buffer holds the first
\* AGENT_MAX_OUTPUT_SIZE units delivered (all of them when the total is at
\* most the cap); this holds in every state and so at the close event.
C21_TruncatedIffOverCap ==
  /\ [](/\ stdoutTruncated <=> outTotal > AGENT_MAX_OUTPUT_SIZE
        /\ stderrTruncated <=> errTotal > AGENT_MAX_OUTPUT_SIZE
        /\ stdout = outFirst /\ Len(stdout) = Min(outTotal, AGENT_MAX_OUTPUT_SIZE)
        /\ stderr = errFirst /\ Len(stderr) = Min(errTotal, AGENT_MAX_OUTPUT_SIZE))
  /\ [][/\ (~stdoutTruncated /\ stdoutTruncated') =>
             (outTotal <= AGENT_MAX_OUTPUT_SIZE /\ outTotal' > AGENT_MAX_OUTPUT_SIZE)
        /\ (~stderrTruncated /\ stderrTruncated') =>
             (errTotal <= AGENT_MAX_OUTPUT_SIZE /\ errTotal' > AGENT_MAX_OUTPUT_SIZE)]_vars

\* C21 witness: at the close event stdout received exactly the cap and is not
\* flagged; stderr received one unit more, one unit was discarded, and it is
\* flagged with the first units kept.
C21_Witness ==
  /\ child = "closed" /\ logFile # NoLog
  /\ outTotal = AGENT_MAX_OUTPUT_SIZE /\ ~stdoutTruncated
  /\ Len(stdout) = AGENT_MAX_OUTPUT_SIZE
  /\ errTotal = AGENT_MAX_OUTPUT_SIZE + 1 /\ stderrTruncated
  /\ stderr = <<"a", "b", "a", "b">>

=============================================================================
